---- MODULE Spec2Model ----
(***************************************************************************)
(* Models of the SOLID teaching programs of the repository:                *)
(*   - the text-processor pipelines of ocp_04 (two fixed steps), ocp_05     *)
(*     (dynamic registry, Vec<Box<dyn Processing>>) and ocp_07 (static      *)
(*     chain, nested tuples), driven over one EditorContent;                *)
(*   - the notifying OrderService of dip_03 with its MockNotifier;          *)
(*   - the hexagonal OrderService of dip_04 / dip_05 / dip_06.              *)
(* A String is a sequence of one-character strings.                         *)
(***************************************************************************)
EXTENDS Integers, Sequences, FiniteSets, TLC

VARIABLES
    \* ---- ocp_04 / ocp_05 / ocp_07 ----
    processor,      \* which processor the program holds: "dyn" | "static" | "naive"
    processings,    \* ocp_05 TxtProcessor.processings (Vec<Box<dyn Processing>>)
    chain,          \* ocp_07 TxTProcessor.processings (the nested tuple)
    ed,             \* EditorContent.content
    registered,     \* history: the steps handed to register_processing since new()
    tools,          \* history: the chain handed to TxTProcessor::new
    fresh,          \* history: the content the EditorContent was created with
    nruns,          \* history: number of runs on this EditorContent
    lastRun,        \* history: the run that has just ended (NoRun otherwise)
    firstRun,       \* history: the first run of the processor as constructed
    \* ---- dip_03 ----
    messages,       \* MockNotifier.messages (Vec<String>)
    placed,         \* history: the order ids handed to place_order
    \* ---- dip_04 / dip_05 / dip_06 ----
    next_id,        \* OrderService.next_id
    orders,         \* the repository's HashMap<OrderId, Order>
    portCalls,      \* history: calls made through the ports, with their results
    requests,       \* history: the item lists handed to place_order, with the result
    profile,        \* the build: "debug" (overflow checks) | "release" (wrapping)
    panicked,       \* the program has panicked (arithmetic overflow, debug build)
    repository,     \* the adapter behind the OrderRepository port
    lastGet,        \* history: the get_order call that has just returned (NoGet otherwise)
    \* ---- lsp_04 ----
    data,           \* MemoryStorage.data (HashMap<String, String>)
    files,          \* the regular files FileStorage has made, by path
    lastOp,         \* history: the Storage call that has just returned, with its results
    twin,           \* a MemoryStorage is given the same calls, all with keys
                    \* that validate_key accepts
    deleted,        \* history: keys whose delete returned true, not set since
    \* ---- ocp_01 / ocp_03 ----
    report,         \* the Report { title, data }
    generated       \* history: what generate has just returned, in ocp_01 and ocp_03

pipeVars == <<processor, processings, chain, ed, registered, tools, fresh, nruns,
              lastRun, firstRun>>
notifyVars == <<messages, placed>>
orderVars == <<next_id, orders, portCalls, requests, profile, panicked, repository, lastGet>>
storageVars == <<twin, data, files, lastOp, deleted>>
reportVars == <<report, generated>>
vars == <<pipeVars, notifyVars, orderVars, storageVars, reportVars>>

(***************************************************************************)
(* Bounds of the model.                                                    *)
(***************************************************************************)
MaxSteps == 3       \* steps in one registry / chain
MaxRuns == 1        \* runs on one EditorContent before it is replaced
MaxRepeats == 2     \* runs of the pipeline of main on one EditorContent
MaxCalls == 3       \* dip_03 place_order calls
MaxOrders == 2      \* dip_06 place_order calls

(***************************************************************************)
(* Strings and to_lowercase.                                               *)
(***************************************************************************)
UpperLetters == <<"A","B","C","D","E","F","G","H","I","J","K","L","M",
                  "N","O","P","Q","R","S","T","U","V","W","X","Y","Z">>
LowerLetters == <<"a","b","c","d","e","f","g","h","i","j","k","l","m",
                  "n","o","p","q","r","s","t","u","v","w","x","y","z">>

\* char::to_lowercase: an ASCII capital maps to its small letter; U+0130
\* (written "U+0130") maps to the two characters i, U+0307; the other
\* characters of the model map to themselves.
AsciiLowercase ==
    [ch \in {UpperLetters[i] : i \in 1..Len(UpperLetters)} |->
        LowerLetters[CHOOSE i \in 1..Len(UpperLetters) : UpperLetters[i] = ch]]

CharToLowercase(ch) ==
    IF ch \in DOMAIN AsciiLowercase THEN <<AsciiLowercase[ch]>>
    ELSE IF ch = "U+0130" THEN <<"i", "U+0307">>
    ELSE <<ch>>

\* The characters i..j of s in lower case, one by one in their order (the
\* range is split in halves to keep the evaluation shallow).
RECURSIVE ToLowercaseRange(_, _, _)
ToLowercaseRange(s, i, j) ==
    IF i > j THEN <<>>
    ELSE IF i = j THEN CharToLowercase(s[i])
    ELSE LET m == (i + j) \div 2
         IN  ToLowercaseRange(s, i, m) \o ToLowercaseRange(s, m + 1, j)

\* str::to_lowercase
ToLowercase(s) == ToLowercaseRange(s, 1, Len(s))

LowerCaseMarker == <<"\n","[","L","o","w","e","r","C","a","s","e"," ","O","K","]">>
SpellCheckerMarker == <<"\n","[","S","p","e","l","l","C","h","e","c","k","e","r"," ","O","K","]">>

HelloWorld == <<"H","E","L","L","O"," ","W","O","R","L","D">>

\* The initial contents an EditorContent is created with.
Contents == {<<>>, HelloWorld, <<"U+0130","x">>}

\* The concrete Processing types.
Kinds == {"LowerCase", "SpellChecker"}

(***************************************************************************)
(* Concrete processings (one copy per crate).                              *)
(***************************************************************************)
Processing04Apply(p, content) ==
    IF p = "LowerCase" THEN ToLowercase(content) \o LowerCaseMarker
    ELSE content \o SpellCheckerMarker

Processing05Apply(p, content) ==
    IF p = "LowerCase" THEN ToLowercase(content) \o LowerCaseMarker
    ELSE content \o SpellCheckerMarker

\* Processing::name in ocp_05
Name05(p) ==
    IF p = "LowerCase" THEN <<"L","o","w","e","r","C","a","s","e">>
    ELSE <<"S","p","e","l","l","C","h","e","c","k","e","r">>

\* Processing::name in ocp_07: SpellChecker gives "Git Integration"
Name07(p) ==
    IF p = "LowerCase" THEN <<"L","o","w","e","r","C","a","s","e">>
    ELSE <<"G","i","t"," ","I","n","t","e","g","r","a","t","i","o","n">>

\* A copy whose SpellChecker writes its marker from self.name().
Processing07ApplyNamed(p, content) ==
    IF p = "LowerCase" THEN ToLowercase(content) \o LowerCaseMarker
    ELSE content \o <<"\n", "[">> \o Name07(p) \o <<" ", "O", "K", "]">>

\* A copy whose LowerCase pushes its marker before lowercasing.
Processing07ApplyMarkerFirst(p, content) ==
    IF p = "LowerCase" THEN ToLowercase(content \o LowerCaseMarker)
    ELSE content \o SpellCheckerMarker

Processing07Apply(p, content) ==
    IF p = "LowerCase" THEN ToLowercase(content) \o LowerCaseMarker
    ELSE content \o SpellCheckerMarker

(***************************************************************************)
(* A run threads a state st = [content, calls, out]: the content of the    *)
(* EditorContent, the record of the apply calls made so far, and the lines *)
(* printed so far.                                                         *)
(***************************************************************************)
Call(pos, p, before, after) == [pos |-> pos, kind |-> p, before |-> before, after |-> after]

StartRun(content) == [content |-> content, calls |-> <<>>, out |-> <<>>]

\* processing.apply(content) in ocp_05, on the step at index pos
CallApply05(p, pos, st) ==
    LET after == Processing05Apply(p, st.content)
    IN  [st EXCEPT !.content = after,
                   !.calls = Append(st.calls, Call(pos, p, st.content, after))]

\* Processing::apply(self, context) in ocp_07, on the step at depth pos
CallApply07(p, pos, st) ==
    LET after == Processing07Apply(p, st.content)
    IN  [st EXCEPT !.content = after,
                   !.calls = Append(st.calls, Call(pos, p, st.content, after))]

\* println!("Running processing: {}", processing.name()) in ocp_05
RunningProcessing ==
    <<"R","u","n","n","i","n","g"," ","p","r","o","c","e","s","s","i","n","g",":"," ">>

PrintName05(p, st) == [st EXCEPT !.out = Append(st.out, RunningProcessing \o Name05(p))]

\* processingN.apply(content) in ocp_04
CallApply04(p, pos, st) ==
    LET after == Processing04Apply(p, st.content)
    IN  [st EXCEPT !.content = after,
                   !.calls = Append(st.calls, Call(pos, p, st.content, after))]

(***************************************************************************)
(* ocp_05: the dynamic registry.                                           *)
(***************************************************************************)
\* A constructor that starts with a default step.
VecNewWithDefault == <<"LowerCase">>

\* Vec::new()
VecNew == <<>>

\* insert(0, processing) instead of push
VecPushFront(v, p) == <<p>> \o v

\* self.processings.push(processing)
VecPush(v, p) == Append(v, p)

\* A loop that stops one element early.
RECURSIVE RunLoop05SkipLast(_, _, _)
RunLoop05SkipLast(procs, i, st) ==
    IF i >= Len(procs) THEN st
    ELSE RunLoop05SkipLast(procs, i + 1, CallApply05(procs[i], i, st))

\* for processing in &mut self.processings { println!(.. processing.name());
\* processing.apply(content) }
RECURSIVE RunLoop05(_, _, _)
RunLoop05(procs, i, st) ==
    IF i > Len(procs) THEN st
    ELSE RunLoop05(procs, i + 1, CallApply05(procs[i], i, PrintName05(procs[i], st)))

\* A loop that consumes the registry (drain(..)).
ProcessingsDrained(procs) == <<>>

\* The registry after run: the loop borrows the Vec and leaves it as it is.
ProcessingsAfterRun05(procs) == procs

(***************************************************************************)
(* ocp_07: the static chain.  A chain is a single Processing or a pair     *)
(* (Head, Tail) of a Processing and a chain.                               *)
(***************************************************************************)
NoChain == [tag |-> "none"]
Single(p) == [tag |-> "single", p |-> p]
Pair(h, t) == [tag |-> "pair", head |-> h, tail |-> t]

RECURSIVE ToolChainApply(_, _, _)
\* The single step with self.apply(context) for its body: the call resolves
\* to ToolChain::apply again and never reaches the step (cut off here once
\* it is deeper than any chain).
SingleApplySelf(c, depth, st) ==
    IF depth > MaxSteps + 1 THEN st ELSE ToolChainApply(c, depth + 1, st)

\* impl<T: Processing> ToolChain for T: Processing::apply(self, context)
SingleApply(c, depth, st) == CallApply07(c.p, depth, st)

\* The pair applied tail first.
PairApplyTailFirst(c, depth, st) ==
    CallApply07(c.head, depth, ToolChainApply(c.tail, depth + 1, st))

\* impl<Head, Tail> ToolChain for (Head, Tail): self.0.apply; self.1.apply
PairApply(c, depth, st) ==
    ToolChainApply(c.tail, depth + 1, CallApply07(c.head, depth, st))

\* ToolChain::apply, dispatched on the type of the chain
ToolChainApply(c, depth, st) ==
    IF c.tag = "single" THEN SingleApply(c, depth, st) ELSE PairApply(c, depth, st)

\* A run that leaves the tail of the chain for the chain.
ChainAfterRun07TailOnly(c) == IF c.tag = "pair" THEN c.tail ELSE c

\* The chain after run: apply takes &mut self and leaves the tuple as it is.
ChainAfterRun07(c) == c

\* The chains of exactly n steps, and the chain literals of the model.
RECURSIVE ChainsOfLen(_)
ChainsOfLen(n) ==
    IF n = 1 THEN {Single(p) : p \in Kinds}
    ELSE {Pair(h, t) : h \in Kinds, t \in ChainsOfLen(n - 1)}

Chains == UNION {ChainsOfLen(n) : n \in 1..MaxSteps}

\* The steps of a chain literal, read left to right.
RECURSIVE Flatten(_)
Flatten(c) == IF c.tag = "single" THEN <<c.p>> ELSE <<c.head>> \o Flatten(c.tail)

(***************************************************************************)
(* ocp_04: run(&self, processing1, processing2, content).                  *)
(***************************************************************************)
Run04Body(p1, p2, st) == CallApply04(p2, 2, CallApply04(p1, 1, st))

(***************************************************************************)
(* The pipeline machine.                                                   *)
(***************************************************************************)
NoRun == [via |-> "none", steps |-> <<>>, before |-> <<>>, calls |-> <<>>, out |-> <<>>]
NoFirstRun == [set |-> FALSE, before |-> <<>>, after |-> <<>>, again |-> FALSE]

\* The first run of a processor since it was constructed is remembered, and
\* whether the processor has run again since.
RememberRun(before, after) ==
    IF firstRun.set THEN [firstRun EXCEPT !.again = TRUE]
    ELSE [set |-> TRUE, before |-> before, after |-> after, again |-> FALSE]

PipeInit ==
    /\ processor = "dyn"
    /\ processings = VecNew
    /\ chain = NoChain
    /\ registered = <<>>
    /\ tools = NoChain
    /\ ed \in Contents
    /\ fresh = ed
    /\ nruns = 0
    /\ lastRun = NoRun
    /\ firstRun = NoFirstRun

\* let mut ed_context = EditorContent { content: String::from(c) }
NewContext(c) ==
    /\ ed' = c
    /\ fresh' = c
    /\ nruns' = 0
    /\ lastRun' = NoRun
    /\ UNCHANGED <<processor, processings, chain, registered, tools, firstRun>>
    /\ UNCHANGED <<notifyVars, orderVars, storageVars, reportVars>>

\* ocp_05 TxtProcessor::new()
TxtProcessorNew05 ==
    /\ processor' = "dyn"
    /\ processings' = VecNew
    /\ chain' = NoChain
    /\ registered' = <<>>
    /\ tools' = NoChain
    /\ lastRun' = NoRun
    /\ firstRun' = NoFirstRun
    /\ UNCHANGED <<ed, fresh, nruns>>
    /\ UNCHANGED <<notifyVars, orderVars, storageVars, reportVars>>

\* A registration that applies the step at once to the content at hand.
RegisterProcessingEager(p) ==
    /\ processor = "dyn"
    /\ Len(processings) < MaxSteps
    /\ processings' = VecPush(processings, p)
    /\ registered' = Append(registered, p)
    /\ ed' = Processing05Apply(p, ed)
    /\ lastRun' = NoRun
    /\ firstRun' = NoFirstRun
    /\ UNCHANGED <<processor, chain, tools, fresh, nruns>>
    /\ UNCHANGED <<notifyVars, orderVars, storageVars, reportVars>>

\* ocp_05 TxtProcessor::register_processing(processing)
RegisterProcessing(p) ==
    /\ processor = "dyn"
    /\ Len(processings) < MaxSteps
    /\ processings' = VecPush(processings, p)
    /\ registered' = Append(registered, p)
    /\ lastRun' = NoRun
    /\ firstRun' = NoFirstRun
    /\ UNCHANGED <<processor, chain, tools, ed, fresh, nruns>>
    /\ UNCHANGED <<notifyVars, orderVars, storageVars, reportVars>>

\* ocp_05 TxtProcessor::run(content): what the call does
Run05Effect ==
    /\ LET st == RunLoop05(processings, 1, StartRun(ed))
       IN  /\ ed' = st.content
           /\ lastRun' = [via |-> "dyn", steps |-> registered, before |-> ed,
                          calls |-> st.calls, out |-> st.out]
           /\ firstRun' = RememberRun(ed, st.content)
    /\ processings' = ProcessingsAfterRun05(processings)
    /\ nruns' = nruns + 1
    /\ UNCHANGED <<processor, chain, registered, tools, fresh>>
    /\ UNCHANGED <<notifyVars, orderVars, storageVars, reportVars>>

\* processor.run(&mut ed_context) on the TxtProcessor of ocp_05
Run05 ==
    /\ processor = "dyn"
    /\ nruns < MaxRuns
    /\ Run05Effect

\* ocp_07 TxTProcessor::new(tools)
TxTProcessorNew07(t) ==
    /\ processor' = "static"
    /\ chain' = t
    /\ tools' = t
    /\ processings' = VecNew
    /\ registered' = <<>>
    /\ lastRun' = NoRun
    /\ firstRun' = NoFirstRun
    /\ UNCHANGED <<ed, fresh, nruns>>
    /\ UNCHANGED <<notifyVars, orderVars, storageVars, reportVars>>

\* ocp_07 TxTProcessor::run(context): what the call does
Run07Effect ==
    /\ LET st == ToolChainApply(chain, 1, StartRun(ed))
       IN  /\ ed' = st.content
           /\ lastRun' = [via |-> "static", steps |-> Flatten(tools), before |-> ed,
                          calls |-> st.calls, out |-> st.out]
           /\ firstRun' = RememberRun(ed, st.content)
    /\ chain' = ChainAfterRun07(chain)
    /\ nruns' = nruns + 1
    /\ UNCHANGED <<processor, processings, registered, tools, fresh>>
    /\ UNCHANGED <<notifyVars, orderVars, storageVars, reportVars>>

\* processor.run(&mut ed_context) on the TxTProcessor of ocp_07
Run07 ==
    /\ processor = "static"
    /\ nruns < MaxRuns
    /\ Run07Effect

\* ocp_04: let processor = TxtProcessor
TxtProcessorNew04 ==
    /\ processor' = "naive"
    /\ processings' = VecNew
    /\ chain' = NoChain
    /\ registered' = <<>>
    /\ tools' = NoChain
    /\ lastRun' = NoRun
    /\ firstRun' = NoFirstRun
    /\ UNCHANGED <<ed, fresh, nruns>>
    /\ UNCHANGED <<notifyVars, orderVars, storageVars, reportVars>>

\* ocp_04 TxtProcessor::run(processing1, processing2, content)
Run04(p1, p2) ==
    /\ processor = "naive"
    /\ nruns < MaxRuns
    /\ LET st == Run04Body(p1, p2, StartRun(ed))
       IN  /\ ed' = st.content
           /\ lastRun' = [via |-> "naive", steps |-> <<p1, p2>>, before |-> ed,
                          calls |-> st.calls, out |-> st.out]
    /\ nruns' = nruns + 1
    /\ UNCHANGED <<processor, processings, chain, registered, tools, fresh, firstRun>>
    /\ UNCHANGED <<notifyVars, orderVars, storageVars, reportVars>>

\* The steps of main, in ocp_05 and in ocp_07.
MainSteps == <<"LowerCase", "SpellChecker">>

\* One more run of the pipeline of main on the same EditorContent, ocp_05.
RepeatRun05 ==
    /\ processor = "dyn"
    /\ registered = MainSteps
    /\ nruns < MaxRepeats
    /\ Run05Effect

\* One more run of the pipeline of main on the same EditorContent, ocp_07.
RepeatRun07 ==
    /\ processor = "static"
    /\ Flatten(tools) = MainSteps
    /\ nruns < MaxRepeats
    /\ Run07Effect

\* The runs are those of the pipeline of main, as many as MaxRepeats on one
\* EditorContent.
RepeatNext ==
    \/ \E c \in Contents : NewContext(c)
    \/ TxtProcessorNew05
    \/ \E p \in Kinds : RegisterProcessing(p)
    \/ RepeatRun05
    \/ \E t \in Chains : TxTProcessorNew07(t)
    \/ RepeatRun07

PipeNext ==
    \/ \E c \in Contents : NewContext(c)
    \/ TxtProcessorNew05
    \/ \E p \in Kinds : RegisterProcessing(p)
    \/ Run05
    \/ \E t \in Chains : TxTProcessorNew07(t)
    \/ Run07
    \/ TxtProcessorNew04
    \/ \E p1 \in Kinds, p2 \in Kinds : Run04(p1, p2)

(***************************************************************************)
(* dip_03: OrderService<N: Notifier> with the MockNotifier of its tests.   *)
(***************************************************************************)
DecimalDigits == <<"0","1","2","3","4","5","6","7","8","9">>

\* Display for u32: the decimal digits, most significant first.
RECURSIVE ToDecimal(_)
ToDecimal(n) ==
    IF n < 10 THEN <<DecimalDigits[n + 1]>>
    ELSE ToDecimal(n \div 10) \o <<DecimalDigits[(n % 10) + 1]>>

\* The text of the line place_order prints ("Order #{} placed") sent instead.
FormatPlaced(order_id) ==
    <<"O","r","d","e","r"," ","#">> \o ToDecimal(order_id) \o <<" ","p","l","a","c","e","d">>

\* format!("Order #{} confirmed", order_id)
FormatConfirmed(order_id) ==
    <<"O","r","d","e","r"," ","#">> \o ToDecimal(order_id)
        \o <<" ","c","o","n","f","i","r","m","e","d">>

\* MockNotifier::send: self.messages.borrow_mut().push(message.to_string())
MockNotifierSend(msgs, message) == Append(msgs, message)

\* The order ids (u32) handed to place_order, among them the largest integer
\* the model checker represents.
OrderIds03 == {0, 42, 100, 101, 102, 999, 2147483647}

NotifyInit == messages = <<>> /\ placed = <<>>

\* dip_03 OrderService::place_order(order_id)
PlaceOrder03(order_id) ==
    /\ Len(placed) < MaxCalls
    /\ messages' = MockNotifierSend(messages, FormatConfirmed(order_id))
    /\ placed' = Append(placed, order_id)
    /\ UNCHANGED <<pipeVars, orderVars, storageVars, reportVars>>

NotifyNext == \E order_id \in OrderIds03 : PlaceOrder03(order_id)

(***************************************************************************)
(* dip_04 / dip_05 / dip_06: the hexagonal OrderService.  The three crates *)
(* hold the same Order::new and place_order; dip_06 is the one modelled.   *)
(* The service is generic over its ports: a port call returns Ok or Err,   *)
(* chosen by the adapter (those shipped always return Ok).                 *)
(***************************************************************************)
\* Money(u32), cents.  A u32 is held as two 16-bit halves, hi * 65536 + lo.
Half == 65536
Money(hi, lo) == [hi |-> hi, lo |-> lo]
U32Max == Money(Half - 1, Half - 1)

Book == [name |-> "Rust Programming Book", price |-> Money(0, 4999)]
Keyboard == [name |-> "Mechanical Keyboard", price |-> Money(0, 12999)]
Priceless == [name |-> "Priceless", price |-> U32Max]

\* The item lists handed to place_order.
ItemLists == {<<>>, <<Book>>, <<Book, Keyboard>>, <<Priceless>>, <<Priceless, Book>>}

Ok(order) == [tag |-> "Ok", order |-> order]
Err(error) == [tag |-> "Err", error |-> error]
Panic == [tag |-> "Panic"]

\* The halves of the item prices, summed separately and without a width.
RECURSIVE SumHalves(_)
SumHalves(items) ==
    IF items = <<>> THEN Money(0, 0)
    ELSE LET rest == SumHalves(Tail(items))
         IN  Money(items[1].price.hi + rest.hi, items[1].price.lo + rest.lo)

\* The sum with the carry of the low half taken into the high half.
Carried(m) == Money(m.hi + (m.lo \div Half), m.lo % Half)

\* The u32 additions of the sum overflow (the prices are not negative, so
\* they do exactly when the whole sum does not fit).
SumOverflows(items) == Carried(SumHalves(items)).hi >= Half

\* items.iter().map(|item| item.price.0).sum(), wrapped to 32 bits
SumPrices(items) ==
    LET m == Carried(SumHalves(items)) IN Money(m.hi % Half, m.lo)

\* Order::new without its emptiness check.
OrderNewUnchecked(id, items, prof) ==
    IF SumOverflows(items) /\ prof = "debug" THEN Panic
    ELSE Ok([id |-> id, items |-> items, total |-> SumPrices(items)])

\* Order::new(id, items).  Sum for u32 panics on overflow where overflow
\* checks are on (debug) and wraps where they are off (release).
OrderNew(id, items, prof) ==
    IF items = <<>> THEN Err("InvalidOrder")
    ELSE IF SumOverflows(items) /\ prof = "debug" THEN Panic
    ELSE Ok([id |-> id, items |-> items, total |-> SumPrices(items)])

\* A call through a port, as the history records it.
PortCall(op, order, ok) == [op |-> op, id |-> order.id, amount |-> order.total, ok |-> ok]

\* The adapters main() wires behind the OrderRepository port.
Repositories == {"InMemory", "Postgres"}

\* HashMap::new()
EmptyRepository == <<>>

\* self.orders.insert(order.id, order.clone())
RepositoryInsert(repo, order) ==
    [i \in DOMAIN repo \cup {order.id} |-> IF i = order.id THEN order ELSE repo[i]]

\* self.orders.get(&id).cloned()
RepositoryFind(repo, id) == IF id \in DOMAIN repo THEN [tag |-> "Some", order |-> repo[id]]
                            ELSE [tag |-> "None"]

\* A save that keeps the latest row only.
PostgresSaveLatestOnly(db, order) == [i \in {order.id} |-> order]

\* PostgresOrderRepository: self.simulated_db.insert(order.id, order.clone())
PostgresSave(db, order) ==
    [i \in DOMAIN db \cup {order.id} |-> IF i = order.id THEN order ELSE db[i]]

\* PostgresOrderRepository: self.simulated_db.get(&id).cloned()
PostgresFind(db, id) == IF id \in DOMAIN db THEN [tag |-> "Some", order |-> db[id]]
                        ELSE [tag |-> "None"]

\* OrderRepository::save, dispatched to the adapter the service was built with
Save(kind, repo, order) ==
    IF kind = "InMemory" THEN RepositoryInsert(repo, order) ELSE PostgresSave(repo, order)

\* OrderRepository::find, dispatched to the adapter the service was built with
Find(kind, repo, id) ==
    IF kind = "InMemory" THEN RepositoryFind(repo, id) ELSE PostgresFind(repo, id)

\* place_order with save before charge.
PlaceOrderBodySaveFirst(id, items, prof, chargeOk, saveOk, sendOk, kind, repo, calls) ==
    LET made == OrderNew(id, items, prof)
    IN  IF made.tag # "Ok" THEN [result |-> made, repo |-> repo, calls |-> calls]
        ELSE
        LET order == made.order
            c1 == Append(calls, PortCall("save", order, saveOk))
            r1 == IF saveOk THEN Save(kind, repo, order) ELSE repo
        IN  IF ~saveOk
            THEN [result |-> Err("StorageFailed"), repo |-> r1, calls |-> c1]
            ELSE
            LET c2 == Append(c1, PortCall("charge", order, chargeOk))
            IN  IF ~chargeOk
                THEN [result |-> Err("PaymentFailed"), repo |-> r1, calls |-> c2]
                ELSE
                LET c3 == Append(c2, PortCall("send", order, sendOk))
                IN  IF ~sendOk
                    THEN [result |-> Err("NotificationFailed"), repo |-> r1, calls |-> c3]
                    ELSE [result |-> Ok(order), repo |-> r1, calls |-> c3]

\* The body of place_order after the id is taken: Order::new(..)?, then
\* charge(order.total)?, save(&order)?, send(&order)?, Ok(order).  A failing
\* save leaves the repository as it was.
PlaceOrderBody(id, items, prof, chargeOk, saveOk, sendOk, kind, repo, calls) ==
    LET made == OrderNew(id, items, prof)
    IN  IF made.tag # "Ok" THEN [result |-> made, repo |-> repo, calls |-> calls]
        ELSE
        LET order == made.order
            c1 == Append(calls, PortCall("charge", order, chargeOk))
        IN  IF ~chargeOk
            THEN [result |-> Err("PaymentFailed"), repo |-> repo, calls |-> c1]
            ELSE
            LET c2 == Append(c1, PortCall("save", order, saveOk))
                r2 == IF saveOk THEN Save(kind, repo, order) ELSE repo
            IN  IF ~saveOk
                THEN [result |-> Err("StorageFailed"), repo |-> r2, calls |-> c2]
                ELSE
                LET c3 == Append(c2, PortCall("send", order, sendOk))
                IN  IF ~sendOk
                    THEN [result |-> Err("NotificationFailed"), repo |-> r2, calls |-> c3]
                    ELSE [result |-> Ok(order), repo |-> r2, calls |-> c3]

\* No get_order call has just returned.
NoGet == [id |-> 0, result |-> [tag |-> "none"]]

\* The ids get_order is asked for: those place_order can have given, one it
\* has not given yet, and 0, which it never gives.
OrderIds06 == 0 .. MaxOrders + 1

\* OrderService::new(repository, payment, sender), with an empty repository
OrdersInit ==
    /\ next_id = 1
    /\ orders = EmptyRepository
    /\ portCalls = <<>>
    /\ requests = <<>>
    /\ profile \in {"debug", "release"}
    /\ panicked = FALSE
    /\ repository \in Repositories
    /\ lastGet = NoGet

\* OrderService::place_order(items)
PlaceOrder(items, chargeOk, saveOk, sendOk) ==
    /\ ~panicked
    /\ Len(requests) < MaxOrders
    /\ LET out == PlaceOrderBody(next_id, items, profile, chargeOk, saveOk, sendOk,
                                 repository, orders, portCalls)
       IN  /\ orders' = out.repo
           /\ portCalls' = out.calls
           /\ requests' = Append(requests, [id |-> next_id, items |-> items,
                                            result |-> out.result])
           /\ panicked' = (out.result.tag = "Panic")
    /\ next_id' = next_id + 1
    /\ lastGet' = NoGet
    /\ UNCHANGED <<profile, repository, pipeVars, notifyVars, storageVars, reportVars>>

\* OrderService::get_order(id): self.repository.find(id)
GetOrder(id) ==
    /\ ~panicked
    /\ lastGet' = [id |-> id, result |-> Ok(Find(repository, orders, id))]
    /\ UNCHANGED <<next_id, orders, portCalls, requests, profile, panicked, repository,
                   pipeVars, notifyVars, storageVars, reportVars>>

OrdersNext ==
    \/ \E items \in ItemLists, chargeOk \in BOOLEAN, saveOk \in BOOLEAN, sendOk \in BOOLEAN :
            PlaceOrder(items, chargeOk, saveOk, sendOk)
    \/ \E id \in OrderIds06 : GetOrder(id)

(***************************************************************************)
(* lsp_04: the Storage trait with MemoryStorage and the FileStorage over   *)
(* base_path ".".  A key and a path are sequences of one-byte characters.  *)
(* demo is generic over Storage: the calls go to the FileStorage, and to a *)
(* MemoryStorage too where the two are compared.  The directory starts     *)
(* empty and has no other writer.                                          *)
(***************************************************************************)
\* key.len() <= 255
MaxKeyLen == 255

\* A key of n bytes.
LongKey(n) == [i \in 1..n |-> "a"]

\* "key" of demo; "" and "."; "..", "../x", "a/b" and "a\b"; the longest key
\* validate_key accepts and the shortest it rejects for its length.
Keys ==
    {<<"k","e","y">>, <<>>, <<".">>, <<".",".">>, <<".",".","/","x">>,
     <<"a","/","b">>, <<"a","\\","b">>, LongKey(MaxKeyLen), LongKey(MaxKeyLen + 1)}

StorageValues == {"value", "other"}

SomeValue(v) == [tag |-> "Some", value |-> v]
NoValue == [tag |-> "None"]

\* str::contains(pattern)
Contains(s, pat) ==
    \E i \in 1..(Len(s) - Len(pat) + 1) : SubSeq(s, i, i + Len(pat) - 1) = pat

\* MemoryStorage::new(): HashMap::new()
MemoryNew == <<>>

\* self.data.get(key).cloned()
MemoryGet(map, key) == IF key \in DOMAIN map THEN SomeValue(map[key]) ELSE NoValue

\* self.data.insert(key, value)
MemorySet(map, key, value) ==
    [k \in DOMAIN map \cup {key} |-> IF k = key THEN value ELSE map[k]]

\* self.data.remove(key).is_some()
MemoryDelete(map, key) ==
    [result |-> key \in DOMAIN map, data |-> [k \in DOMAIN map \ {key} |-> map[k]]]

\* FileStorage::new(".")
BasePath == <<".">>

\* validate_key without its test for a backslash.
ValidateKeyNoBackslash(key) ==
    /\ ~Contains(key, <<".", ".">>)
    /\ ~Contains(key, <<"/">>)
    /\ Len(key) <= MaxKeyLen

\* validate_key
ValidateKey(key) ==
    /\ ~Contains(key, <<".", ".">>)
    /\ ~Contains(key, <<"/">>)
    /\ ~Contains(key, <<"\\">>)
    /\ Len(key) <= MaxKeyLen

\* Path::new(&self.base_path).join(key): the key after a separator
KeyToPath(key) == BasePath \o <<"/">> \o key

\* ---- the file system under the calls of std::fs ----
\* The regular files are a function from their paths to their contents.
\* The position of the last separator of a path (0 when it has none).
LastSeparator(path) ==
    IF \E i \in 1..Len(path) : path[i] = "/"
    THEN CHOOSE i \in 1..Len(path) :
             path[i] = "/" /\ \A j \in (i + 1)..Len(path) : path[j] # "/"
    ELSE 0

ParentOf(path) == SubSeq(path, 1, LastSeparator(path) - 1)
FileNameOf(path) == SubSeq(path, LastSeparator(path) + 1, Len(path))

\* The directories there are: base_path and the one above it.
Directories == {BasePath, BasePath \o <<"/", ".", ".">>}

\* The path names a directory: its last component is empty, "." or "..".
IsDirectory(path) ==
    ParentOf(path) \in Directories /\ FileNameOf(path) \in {<<>>, <<".">>, <<".", ".">>}

\* The longest file name a directory takes is as long as the longest key.
NameMax == MaxKeyLen

\* A regular file can be at this path.
CanHoldFile(path) ==
    /\ ParentOf(path) \in Directories
    /\ ~IsDirectory(path)
    /\ Len(FileNameOf(path)) <= NameMax

\* std::fs::write(path, value)
FsWrite(fs, path, value) ==
    IF CanHoldFile(path)
    THEN [ok |-> TRUE,
          fs |-> [q \in DOMAIN fs \cup {path} |-> IF q = path THEN value ELSE fs[q]]]
    ELSE [ok |-> FALSE, fs |-> fs]

\* std::fs::read_to_string(path)
FsReadToString(fs, path) ==
    IF path \in DOMAIN fs THEN [ok |-> TRUE, value |-> fs[path]] ELSE [ok |-> FALSE]

\* std::fs::remove_file(path): Ok, or the kind of its error
FsRemoveFile(fs, path) ==
    IF path \in DOMAIN fs
    THEN [kind |-> "Ok", fs |-> [q \in DOMAIN fs \ {path} |-> fs[q]]]
    ELSE IF IsDirectory(path) \/ Len(FileNameOf(path)) > NameMax
         THEN [kind |-> "Other", fs |-> fs]
         ELSE [kind |-> "NotFound", fs |-> fs]

\* FileStorage::get
FileGet(fs, key) ==
    IF ~ValidateKey(key) THEN NoValue
    ELSE LET read == FsReadToString(fs, KeyToPath(key))
         IN  IF read.ok THEN SomeValue(read.value) ELSE NoValue

\* FileStorage::set: a failed write is reported on stderr only
FileSet(fs, key, value) ==
    IF ~ValidateKey(key) THEN fs
    ELSE FsWrite(fs, KeyToPath(key), value).fs

\* A delete that takes a missing file for a removed one.
FileDeleteNotFoundTrue(fs, key) ==
    IF ~ValidateKey(key) THEN [result |-> FALSE, fs |-> fs]
    ELSE LET removed == FsRemoveFile(fs, KeyToPath(key))
         IN  [result |-> removed.kind \in {"Ok", "NotFound"}, fs |-> removed.fs]

\* FileStorage::delete: Ok(()) => true, NotFound => false, other errors => false
FileDelete(fs, key) ==
    IF ~ValidateKey(key) THEN [result |-> FALSE, fs |-> fs]
    ELSE LET removed == FsRemoveFile(fs, KeyToPath(key))
         IN  [result |-> removed.kind = "Ok", fs |-> removed.fs]

\* No call has returned yet.
NoOp == [op |-> "none"]

\* main: FileStorage::new("."), the directory empty, and where the calls are
\* compared a MemoryStorage::new() that is given the same calls
StorageInit ==
    /\ twin \in BOOLEAN
    /\ data = MemoryNew
    /\ files = <<>>
    /\ lastOp = NoOp
    /\ deleted = {}

\* storage.set(key, value)
StorageSet(key, value) ==
    /\ twin => ValidateKey(key)
    /\ data' = IF twin THEN MemorySet(data, key, value) ELSE data
    /\ files' = FileSet(files, key, value)
    /\ lastOp' = [op |-> "set", key |-> key, value |-> value, before |-> files]
    /\ deleted' = deleted \ {key}
    /\ UNCHANGED <<twin, pipeVars, notifyVars, orderVars, reportVars>>

\* storage.get(key)
StorageGet(key) ==
    /\ twin => ValidateKey(key)
    /\ lastOp' = [op |-> "get", key |-> key, before |-> files,
                  mem |-> IF twin THEN MemoryGet(data, key) ELSE NoValue,
                  file |-> FileGet(files, key)]
    /\ UNCHANGED <<twin, data, files, deleted, pipeVars, notifyVars, orderVars, reportVars>>

\* storage.delete(key)
StorageDelete(key) ==
    /\ twin => ValidateKey(key)
    /\ LET m == MemoryDelete(data, key)
           f == FileDelete(files, key)
       IN  /\ data' = IF twin THEN m.data ELSE data
           /\ files' = f.fs
           /\ lastOp' = [op |-> "delete", key |-> key, before |-> files,
                         mem |-> twin /\ m.result, file |-> f.result]
           /\ deleted' = IF f.result THEN deleted \cup {key} ELSE deleted
    /\ UNCHANGED <<twin, pipeVars, notifyVars, orderVars, reportVars>>

StorageNext ==
    \/ \E key \in Keys, value \in StorageValues : StorageSet(key, value)
    \/ \E key \in Keys : StorageGet(key)
    \/ \E key \in Keys : StorageDelete(key)


(***************************************************************************)
(* ocp_01 / ocp_03: Report::generate before and after the refactoring.     *)
(* The same Report is given to both programs.                              *)
(***************************************************************************)
MonthlySales ==
    <<"M","o","n","t","h","l","y"," ","S","a","l","e","s">>
ProductA ==
    <<"P","r","o","d","u","c","t"," ","A",":"," ","1","2","0"," ","u","n","i",
    "t","s">>
ProductB ==
    <<"P","r","o","d","u","c","t"," ","B",":"," ","9","8"," ","u","n","i","t",
    "s">>
ProductC ==
    <<"P","r","o","d","u","c","t"," ","C",":"," ","1","4","3"," ","u","n","i",
    "t","s">>

\* The longest data list of a Report.
MaxData == 3

Titles == {MonthlySales, <<>>}
Items == {ProductA, ProductB, ProductC}
DataLists == UNION {[1..n -> Items] : n \in 0..MaxData}
Formats == {"Text", "Html", "Pdf"}

TextOpen ==
    <<"=","=","="," ">>
TextClose ==
    <<" ","=","=","=">>
TextBullet ==
    <<"-"," ">>
HtmlOpen ==
    <<"<","h","1",">">>
HtmlClose ==
    <<"<","/","h","1",">","\n","<","u","l",">","\n">>
HtmlItemOpen ==
    <<" "," ","<","l","i",">">>
HtmlItemClose ==
    <<"<","/","l","i",">","\n">>
HtmlEnd ==
    <<"<","/","u","l",">">>
PdfOpen ==
    <<"P","D","F",":"," ">>
PdfClose ==
    <<" ","[","b","i","n","a","r","y"," ","d","a","t","a","]">>
NewLine == <<"\n">>

\* ocp_01, ReportFormat::Text: for item in &self.data { push_str("\n- {item}") }
RECURSIVE Text01Items(_)
Text01Items(items) ==
    IF items = <<>> THEN <<>>
    ELSE NewLine \o TextBullet \o Head(items) \o Text01Items(Tail(items))

\* ocp_03, TextFormatter: for item in data { push_str("- {item}\n") }
RECURSIVE Text03Items(_)
Text03Items(items) ==
    IF items = <<>> THEN <<>>
    ELSE TextBullet \o Head(items) \o NewLine \o Text03Items(Tail(items))

\* both crates, Html: for item { push_str("  <li>{item}</li>\n") }
RECURSIVE HtmlItems(_)
HtmlItems(items) ==
    IF items = <<>> THEN <<>>
    ELSE HtmlItemOpen \o Head(items) \o HtmlItemClose \o HtmlItems(Tail(items))

\* ocp_01: Report::generate(&self, format)
Generate01(r, format) ==
    CASE format = "Text" -> TextOpen \o r.title \o TextClose \o Text01Items(r.data)
      [] format = "Html" -> HtmlOpen \o r.title \o HtmlClose \o HtmlItems(r.data) \o HtmlEnd
      [] format = "Pdf"  -> PdfOpen \o r.title \o PdfClose

\* ocp_03: TextFormatter::format(title, data)
TextFormatterFormat(title, items) ==
    TextOpen \o title \o TextClose \o NewLine \o Text03Items(items)

\* ocp_03: HtmlFormatter::format(title, data)
HtmlFormatterFormat(title, items) ==
    HtmlOpen \o title \o HtmlClose \o HtmlItems(items) \o HtmlEnd

\* ocp_03: PdfFormatter::format(title, _data)
PdfFormatterFormat(title, items) == PdfOpen \o title \o PdfClose

\* ocp_03: Report::generate(&self, formatter) is formatter.format(&self.title, &self.data)
Generate03(r, formatter) ==
    CASE formatter = "Text" -> TextFormatterFormat(r.title, r.data)
      [] formatter = "Html" -> HtmlFormatterFormat(r.title, r.data)
      [] formatter = "Pdf"  -> PdfFormatterFormat(r.title, r.data)

\* generate has not returned for this Report.
NoOutput == [format |-> "none"]

\* main: let report = Report { title, data }
ReportInit ==
    /\ report \in [title : Titles, data : DataLists]
    /\ generated = NoOutput

\* report.generate(..) with the format, and with the formatter, of one kind
Generate(format) ==
    /\ generated' = [format |-> format,
                     ocp_01 |-> Generate01(report, format),
                     ocp_03 |-> Generate03(report, format)]
    /\ UNCHANGED <<report, pipeVars, notifyVars, orderVars, storageVars>>

ReportNext == \E format \in Formats : Generate(format)

(***************************************************************************)
(* The specifications: one per program family, the others at rest.         *)
(***************************************************************************)
PipeIdle == PipeInit /\ ed = <<>>
NotifyIdle == NotifyInit
OrdersIdle == OrdersInit /\ profile = "release" /\ repository = "InMemory"
StorageIdle == StorageInit /\ twin = FALSE
ReportIdle == ReportInit /\ report = [title |-> <<>>, data |-> <<>>]

\* The three text processors over one EditorContent.
Init == PipeInit /\ NotifyIdle /\ OrdersIdle /\ StorageIdle /\ ReportIdle
Next == PipeNext
Spec == Init /\ [][Next]_vars

\* ocp_05 / ocp_07: the pipeline of main run again and again.
InitRepeat == PipeInit /\ NotifyIdle /\ OrdersIdle /\ StorageIdle /\ ReportIdle
NextRepeat == RepeatNext
SpecRepeat == InitRepeat /\ [][NextRepeat]_vars

\* dip_03
InitNotify == PipeIdle /\ NotifyInit /\ OrdersIdle /\ StorageIdle /\ ReportIdle
NextNotify == NotifyNext
SpecNotify == InitNotify /\ [][NextNotify]_vars

\* dip_06
InitOrders == PipeIdle /\ NotifyIdle /\ OrdersInit /\ StorageIdle /\ ReportIdle
NextOrders == OrdersNext
SpecOrders == InitOrders /\ [][NextOrders]_vars

\* lsp_04
InitStorage == PipeIdle /\ NotifyIdle /\ OrdersIdle /\ StorageInit /\ ReportIdle
NextStorage == StorageNext
SpecStorage == InitStorage /\ [][NextStorage]_vars

\* ocp_01 / ocp_03
InitReport == PipeIdle /\ NotifyIdle /\ OrdersIdle /\ StorageIdle /\ ReportInit
NextReport == ReportNext
SpecReport == InitReport /\ [][NextReport]_vars

(***************************************************************************)
(* Properties of the text processors.                                      *)
(***************************************************************************)
\* The step's apply of the crate the run went through.
ApplyStep(via, p, c) ==
    CASE via = "dyn" -> Processing05Apply(p, c)
      [] via = "static" -> Processing07Apply(p, c)
      [] OTHER -> Processing04Apply(p, c)

\* Applying the steps by hand, one at a time, in the order of the list.
RECURSIVE ApplyOneAtATime(_, _, _)
ApplyOneAtATime(via, steps, c) ==
    IF steps = <<>> THEN c
    ELSE ApplyStep(via, steps[Len(steps)],
                   ApplyOneAtATime(via, SubSeq(steps, 1, Len(steps) - 1), c))

Reverse(s) == [i \in 1..Len(s) |-> s[Len(s) + 1 - i]]

\* "hello world\n[LowerCase OK]\n[SpellChecker OK]"
HelloLowerSpell ==
    <<"h","e","l","l","o"," ","w","o","r","l","d">> \o LowerCaseMarker \o SpellCheckerMarker

\* C1 (order invariant): a run of the dynamic registry or of the static chain
\* over N >= 1 steps leaves the content equal to applying each step's apply
\* one at a time in registration / declared order; [LowerCase, SpellChecker]
\* on "HELLO WORLD" gives "hello world\n[LowerCase OK]\n[SpellChecker OK]",
\* which is not what the reversed order gives.
OrderInvariant ==
    (lastRun.via \in {"dyn", "static"} /\ Len(lastRun.steps) >= 1) =>
        /\ ed = ApplyOneAtATime(lastRun.via, lastRun.steps, lastRun.before)
        /\ (lastRun.steps = <<"LowerCase", "SpellChecker">> /\ lastRun.before = HelloWorld) =>
              /\ ed = HelloLowerSpell
              /\ ed # ApplyOneAtATime(lastRun.via, Reverse(lastRun.steps), lastRun.before)

OrderInvariantWitness ==
    /\ lastRun.via = "static"
    /\ lastRun.steps = <<"SpellChecker", "LowerCase", "LowerCase">>
    /\ lastRun.before = HelloWorld
    /\ ed # ApplyOneAtATime("static", Reverse(lastRun.steps), lastRun.before)

\* C2 (exactly once, in order, back to back): a run (ocp_04, ocp_05, ocp_07)
\* makes one apply call per step, the i-th call on the i-th step, each call
\* starting from the content its predecessor left and the last one leaving
\* the final content.
ExactlyOnceInOrder ==
    lastRun.via # "none" =>
        LET n == Len(lastRun.steps)
            calls == lastRun.calls
        IN  /\ Len(calls) = n
            /\ \A i \in 1..Len(calls) :
                  /\ calls[i].pos = i
                  /\ i <= n => calls[i].kind = lastRun.steps[i]
                  /\ calls[i].before = (IF i = 1 THEN lastRun.before ELSE calls[i - 1].after)
                  /\ calls[i].after = ApplyStep(lastRun.via, calls[i].kind, calls[i].before)
            /\ ed = (IF calls = <<>> THEN lastRun.before ELSE calls[Len(calls)].after)

ExactlyOnceInOrderWitness ==
    /\ lastRun.via = "dyn"
    /\ Len(lastRun.calls) = 3
    /\ lastRun.calls[1].kind # lastRun.calls[2].kind
    /\ lastRun.calls[3].before = lastRun.calls[2].after
    /\ lastRun.calls[2].before # lastRun.before

\* The registry obtained by registering the steps in order, and the nested
\* tuple (A, (B, C)) of the steps.
RECURSIVE RegistryOf(_)
RegistryOf(steps) ==
    IF steps = <<>> THEN VecNew
    ELSE VecPush(RegistryOf(SubSeq(steps, 1, Len(steps) - 1)), steps[Len(steps)])

RECURSIVE NestOf(_)
NestOf(steps) ==
    IF Len(steps) = 1 THEN Single(steps[1]) ELSE Pair(Head(steps), NestOf(Tail(steps)))

\* C3 (static = dynamic): whatever processor ran the steps, the content it
\* left is the content the dynamic registry, the static chain and, for two
\* steps, the two-argument run leave for the same steps and initial content.
StaticDynamicEquivalent ==
    (lastRun.via # "none" /\ Len(lastRun.steps) >= 1) =>
        LET s == lastRun.steps
            c0 == lastRun.before
        IN  /\ ed = RunLoop05(RegistryOf(s), 1, StartRun(c0)).content
            /\ ed = ToolChainApply(NestOf(s), 1, StartRun(c0)).content
            /\ Len(s) = 2 => ed = Run04Body(s[1], s[2], StartRun(c0)).content

StaticDynamicEquivalentWitness ==
    /\ lastRun.via = "static"
    /\ tools = Pair("LowerCase", Pair("SpellChecker", Single("LowerCase")))
    /\ lastRun.before = HelloWorld
    /\ ed = RunLoop05(<<"LowerCase", "SpellChecker", "LowerCase">>, 1, StartRun(HelloWorld)).content

\* C4 (registry order): the registry always holds exactly the steps handed to
\* register_processing, in registration order, and a run applies exactly
\* those, in that order.
RegistryOrder ==
    /\ processor = "dyn" => processings = registered
    /\ lastRun.via = "dyn" =>
          /\ Len(lastRun.calls) = Len(registered)
          /\ \A i \in 1..Len(lastRun.calls) : lastRun.calls[i].kind = registered[i]

RegistryOrderWitness ==
    /\ lastRun.via = "dyn"
    /\ registered = <<"SpellChecker", "LowerCase", "LowerCase">>
    /\ processings = registered
    /\ firstRun.again

\* C5 (empty registry): a run of a TxtProcessor on which register_processing
\* was never called makes no apply call and leaves the content as it was.
EmptyPipelineNoOp ==
    (lastRun.via = "dyn" /\ registered = <<>>) =>
        ed = lastRun.before /\ lastRun.calls = <<>>

EmptyPipelineNoOpWitness ==
    lastRun.via = "dyn" /\ registered = <<>> /\ ed = HelloWorld /\ nruns = 1

ConstructionStep ==
    \/ TxtProcessorNew05
    \/ \E p \in Kinds : RegisterProcessing(p)
    \/ \E t \in Chains : TxTProcessorNew07(t)

RunStep == Run05 \/ Run07 \/ \E p1 \in Kinds, p2 \in Kinds : Run04(p1, p2)

\* C6 (construction leaves contexts alone): new and register_processing of
\* ocp_05 and new of ocp_07 leave the EditorContent as it is; the content of
\* an EditorContent changes only in a run (or when a new one is created).
ConstructionLeavesContext ==
    [][/\ ConstructionStep => ed' = ed
       /\ ed' # ed => (RunStep \/ \E c \in Contents : NewContext(c))]_vars

ConstructionLeavesContextWitness ==
    /\ processor = "dyn"
    /\ Len(registered) = 2
    /\ nruns = 1
    /\ ed # fresh
    /\ lastRun = NoRun

\* C7 (repeated runs): a later run of the processor as constructed, on a
\* content equal to the one its first run started from, leaves the content
\* the first run left.
RepeatedRunsIndependent ==
    (lastRun.via \in {"dyn", "static"} /\ firstRun.set /\ firstRun.before = lastRun.before) =>
        ed = firstRun.after

RepeatedRunsIndependentWitness ==
    /\ firstRun.again
    /\ lastRun.via = "dyn"
    /\ lastRun.steps = <<"LowerCase", "SpellChecker">>
    /\ lastRun.before = HelloWorld
    /\ firstRun.before = HelloWorld
    /\ nruns = 1
    /\ ed = firstRun.after

(***************************************************************************)
(* Properties of the order services.                                       *)
(***************************************************************************)
\* Reading a message back: the value of a string of decimal digits.
DigitValue(d) == CHOOSE v \in 0..9 : DecimalDigits[v + 1] = d

RECURSIVE DecimalValue(_)
DecimalValue(ds) ==
    IF ds = <<>> THEN 0
    ELSE 10 * DecimalValue(SubSeq(ds, 1, Len(ds) - 1)) + DigitValue(ds[Len(ds)])

OrderPrefix == <<"O","r","d","e","r"," ","#">>
ConfirmedSuffix == <<" ","c","o","n","f","i","r","m","e","d">>

\* m is "Order #<id> confirmed", <id> in decimal without leading zeros
IsConfirmationOf(m, id) ==
    LET np == Len(OrderPrefix)
        ns == Len(ConfirmedSuffix)
        ds == SubSeq(m, np + 1, Len(m) - ns)
    IN  /\ Len(m) > np + ns
        /\ SubSeq(m, 1, np) = OrderPrefix
        /\ SubSeq(m, Len(m) - ns + 1, Len(m)) = ConfirmedSuffix
        /\ \A i \in 1..Len(ds) : \E v \in 0..9 : DecimalDigits[v + 1] = ds[i]
        /\ (Len(ds) > 1 => ds[1] # "0")
        /\ DecimalValue(ds) = id

\* C8 (one notification per order): after k calls of place_order the notifier
\* has received exactly k messages, the i-th being "Order #<id_i> confirmed"
\* for the i-th id; order 42 gives "Order #42 confirmed".
OneNotificationPerOrder ==
    /\ Len(messages) = Len(placed)
    /\ \A i \in 1..Len(messages) :
          /\ i <= Len(placed) => IsConfirmationOf(messages[i], placed[i])
          /\ (i <= Len(placed) /\ placed[i] = 42) =>
                messages[i] = <<"O","r","d","e","r"," ","#","4","2"," ",
                                "c","o","n","f","i","r","m","e","d">>

OneNotificationPerOrderWitness ==
    /\ placed = <<100, 101, 102>>
    /\ Len(messages) = 3
    /\ messages[1] # messages[2]
    /\ messages[3] = OrderPrefix \o <<"1","0","2">> \o ConfirmedSuffix

\* C9 (charge, then save, then send): save is called for an order only after
\* charge of that order's total has returned Ok, send only after its save has
\* returned Ok; a failed charge or save is the last port call made for its
\* order, and the call returns that error; every order in the repository has
\* been charged successfully.
ChargeBeforeSave ==
    /\ \A k \in 1..Len(portCalls) :
          LET call == portCalls[k]
          IN  /\ call.op = "save" =>
                    \E j \in 1..(k - 1) :
                        /\ portCalls[j].op = "charge" /\ portCalls[j].ok
                        /\ portCalls[j].id = call.id /\ portCalls[j].amount = call.amount
              /\ call.op = "send" =>
                    \E j \in 1..(k - 1) :
                        portCalls[j].op = "save" /\ portCalls[j].ok /\ portCalls[j].id = call.id
              /\ ~call.ok => \A j \in (k + 1)..Len(portCalls) : portCalls[j].id # call.id
              /\ (~call.ok /\ call.op = "charge") =>
                    \E i \in 1..Len(requests) :
                        requests[i].id = call.id /\ requests[i].result = Err("PaymentFailed")
              /\ (~call.ok /\ call.op = "save") =>
                    \E i \in 1..Len(requests) :
                        requests[i].id = call.id /\ requests[i].result = Err("StorageFailed")
    /\ \A id \in DOMAIN orders :
          \E j \in 1..Len(portCalls) :
              /\ portCalls[j].op = "charge" /\ portCalls[j].ok
              /\ portCalls[j].id = id /\ portCalls[j].amount = orders[id].total

ChargeBeforeSaveWitness ==
    /\ Len(requests) = 2
    /\ requests[1].result = Err("PaymentFailed")
    /\ requests[2].result.tag = "Ok"
    /\ DOMAIN orders = {2}
    /\ \E k \in 1..Len(portCalls) : portCalls[k].op = "save" /\ portCalls[k].id = 2

\* C10 (no empty order): Order::new of an empty list is Err(InvalidOrder);
\* place_order of an empty list returns Err(InvalidOrder) and makes no port
\* call; every order in the repository has at least one item.
NoEmptyOrder ==
    /\ \A id \in 1..(MaxOrders + 1), prof \in {"debug", "release"} :
          OrderNew(id, <<>>, prof) = Err("InvalidOrder")
    /\ \A i \in 1..Len(requests) :
          requests[i].items = <<>> =>
              /\ requests[i].result = Err("InvalidOrder")
              /\ \A k \in 1..Len(portCalls) : portCalls[k].id # requests[i].id
    /\ \A id \in DOMAIN orders : Len(orders[id].items) >= 1

NoEmptyOrderWitness ==
    /\ Len(requests) = 2
    /\ requests[1].items = <<>>
    /\ requests[1].result = Err("InvalidOrder")
    /\ requests[2].result.tag = "Ok"
    /\ DOMAIN orders = {2}

\* The sum of the item prices as a number, without a width.
ArithmeticSum(items) == Carried(SumHalves(items))

\* C11 (total is the sum): for every non-empty item list handed to
\* place_order, Order::new returns (no panic), and the total of the Order it
\* makes, as returned and as stored, is the arithmetic sum of the item prices.
TotalIsArithmeticSum ==
    /\ \A i \in 1..Len(requests) :
          requests[i].items # <<>> =>
              /\ requests[i].result.tag # "Panic"
              /\ requests[i].result.tag = "Ok" =>
                    requests[i].result.order.total = ArithmeticSum(requests[i].items)
    /\ \A id \in DOMAIN orders : orders[id].total = ArithmeticSum(orders[id].items)

\* The order with this id went through a successful save.
Saved(id) ==
    \E k \in 1..Len(portCalls) :
        portCalls[k].op = "save" /\ portCalls[k].ok /\ portCalls[k].id = id

\* C12 (save/find round trip): in every state after place_order has returned
\* Ok(order), find of order.id gives Some of an order with the same id, items
\* and total, whatever place_order calls came later; a get_order call returns
\* Ok(Some(o)) with o the order built for that id when the id was saved and
\* Ok(None) when it never was; with either repository adapter.
SaveFindRoundTrip ==
    /\ \A i \in 1..Len(requests) :
          requests[i].result.tag = "Ok" =>
              /\ Find(repository, orders, requests[i].id)
                    = [tag |-> "Some", order |-> requests[i].result.order]
              /\ lastGet.id = requests[i].id =>
                    /\ lastGet.result.tag = "Ok"
                    /\ lastGet.result.order.tag = "Some"
                    /\ lastGet.result.order.order.id = requests[i].result.order.id
                    /\ lastGet.result.order.order.items = requests[i].result.order.items
                    /\ lastGet.result.order.order.total = requests[i].result.order.total
    /\ lastGet # NoGet =>
          /\ lastGet.result.tag = "Ok"
          /\ IF Saved(lastGet.id)
             THEN \E i \in 1..Len(requests) :
                      /\ requests[i].id = lastGet.id
                      /\ lastGet.result.order
                            = [tag |-> "Some",
                               order |-> [id |-> lastGet.id, items |-> requests[i].items,
                                          total |-> SumPrices(requests[i].items)]]
             ELSE lastGet.result.order = [tag |-> "None"]

SaveFindRoundTripWitness ==
    /\ repository = "Postgres"
    /\ Len(requests) = 2
    /\ requests[1].result.tag = "Ok"
    /\ requests[2].result.tag = "Ok"
    /\ lastGet.id = 1
    /\ lastGet.result = Ok([tag |-> "Some", order |-> requests[1].result.order])

(***************************************************************************)
(* Properties of the storages.                                             *)
(***************************************************************************)
\* C13 (FileStorage for MemoryStorage): where both storages have been given
\* the same calls from empty, all with keys validate_key accepts, the get or
\* delete that has just returned gave the same result on both.
FileStorageSubstitutable ==
    (twin /\ lastOp.op \in {"get", "delete"}) => lastOp.file = lastOp.mem

\* The keys C14 is about.
InvalidKey(key) ==
    \/ Contains(key, <<".", ".">>)
    \/ Contains(key, <<"/">>)
    \/ Contains(key, <<"\\">>)
    \/ Len(key) > MaxKeyLen

\* C14 (invalid keys are "not found"): in every state and for every key that
\* contains "..", '/' or '\' or is longer than 255 bytes, get is None, set
\* leaves the files as they are and delete is false and leaves them too; and
\* the call with such a key that has just returned did so.
InvalidKeysNotFound ==
    /\ \A key \in Keys :
          InvalidKey(key) =>
              /\ FileGet(files, key) = NoValue
              /\ \A value \in StorageValues : FileSet(files, key, value) = files
              /\ FileDelete(files, key) = [result |-> FALSE, fs |-> files]
    /\ (lastOp.op # "none" /\ InvalidKey(lastOp.key)) =>
          /\ files = lastOp.before
          /\ lastOp.op = "get" => lastOp.file = NoValue
          /\ lastOp.op = "delete" => lastOp.file = FALSE

InvalidKeysNotFoundWitness ==
    /\ lastOp.op = "set"
    /\ lastOp.key = <<"a", "\\", "b">>
    /\ DOMAIN files = {KeyToPath(<<"k", "e", "y">>)}

\* C15 (delete tells the truth): the delete that has just returned gave true
\* exactly when get of the key gave an entry before it, and then the entry is
\* gone and nothing else has changed; when it gave false the files are as
\* they were; a key whose delete gave true has no entry until it is set.
DeleteReportsRemoval ==
    /\ lastOp.op = "delete" =>
          LET existed == FileGet(lastOp.before, lastOp.key) # NoValue
              path == KeyToPath(lastOp.key)
          IN  /\ lastOp.file = existed
              /\ lastOp.file =>
                    /\ FileGet(files, lastOp.key) = NoValue
                    /\ files = [q \in DOMAIN lastOp.before \ {path} |-> lastOp.before[q]]
              /\ ~lastOp.file => files = lastOp.before
    /\ \A key \in deleted : FileGet(files, key) = NoValue

DeleteReportsRemovalWitness ==
    /\ lastOp.op = "delete"
    /\ lastOp.key = <<"k", "e", "y">>
    /\ lastOp.file
    /\ lastOp.before = [q \in {KeyToPath(lastOp.key)} |-> "value"]
    /\ files = <<>>

(***************************************************************************)
(* Properties of the reports.                                              *)
(***************************************************************************)
\* C16 (TextFormatter as before): for every title and data list, what
\* generate(&TextFormatter) of ocp_03 has returned is the string
\* generate(ReportFormat::Text) of ocp_01 has returned for the same Report.
TextFormatterSameAsBefore ==
    generated.format = "Text" => generated.ocp_03 = generated.ocp_01

(***************************************************************************)
(* More properties of the text processors.                                 *)
(***************************************************************************)
\* How deep a chain literal is nested: 1 for a single step.
RECURSIVE ChainDepth(_)
ChainDepth(c) == IF c.tag = "single" THEN 1 ELSE 1 + ChainDepth(c.tail)

\* C17 (base case of the static chain): a run of a chain nested to depth N
\* has ended after exactly N step applications, one at each depth from 1 to
\* N and none twice; for a single step as the chain that is one application,
\* at depth 1, and the content is what that step's Processing::apply makes
\* of the content before the run.
StaticChainTerminates ==
    lastRun.via = "static" =>
        LET n == ChainDepth(tools)
        IN  /\ Len(lastRun.calls) = n
            /\ \A i \in 1..n : lastRun.calls[i].pos = i
            /\ tools.tag = "single" =>
                  /\ lastRun.calls
                        = <<Call(1, tools.p, lastRun.before,
                                 Processing07Apply(tools.p, lastRun.before))>>
                  /\ ed = Processing07Apply(tools.p, lastRun.before)

StaticChainTerminatesWitness ==
    /\ lastRun.via = "static"
    /\ tools = Single("SpellChecker")
    /\ lastRun.before = HelloWorld
    /\ Len(lastRun.calls) = 1
    /\ ed = HelloWorld \o SpellCheckerMarker

\* C18 (names are diagnostic only): a run of ocp_05 has printed the name of
\* each step once, in order, and a run of ocp_07 has read no name; either run
\* has left the content that the other crate's run over the same steps makes
\* of the content before it, although the two crates name SpellChecker
\* differently; each apply call of either has made of the content what the
\* step of that kind makes of it in ocp_05; and the pipeline is as it was
\* handed over.
NameIsDiagnosticOnly ==
    /\ lastRun.via = "dyn" =>
          /\ lastRun.out = [i \in 1..Len(lastRun.steps) |->
                                RunningProcessing \o Name05(lastRun.steps[i])]
          /\ processings = registered
          /\ lastRun.steps # <<>> =>
                ed = ToolChainApply(NestOf(lastRun.steps), 1, StartRun(lastRun.before)).content
    /\ lastRun.via = "static" =>
          /\ lastRun.out = <<>>
          /\ chain = tools
          /\ ed = RunLoop05(RegistryOf(lastRun.steps), 1, StartRun(lastRun.before)).content
    /\ lastRun.via \in {"dyn", "static"} =>
          \A i \in 1..Len(lastRun.calls) :
              lastRun.calls[i].after
                  = Processing05Apply(lastRun.calls[i].kind, lastRun.calls[i].before)

NameIsDiagnosticOnlyWitness ==
    /\ lastRun.via = "static"
    /\ lastRun.steps = <<"LowerCase", "SpellChecker">>
    /\ lastRun.before = HelloWorld
    /\ Name07("SpellChecker") # Name05("SpellChecker")
    /\ ed = RunLoop05(<<"LowerCase", "SpellChecker">>, 1, StartRun(HelloWorld)).content
    /\ RunLoop05(<<"LowerCase", "SpellChecker">>, 1, StartRun(HelloWorld)).out
          = <<RunningProcessing \o Name05("LowerCase"),
              RunningProcessing \o Name05("SpellChecker")>>

\* s, n times over.
RECURSIVE Repeated(_, _)
Repeated(s, n) == IF n = 0 THEN <<>> ELSE s \o Repeated(s, n - 1)

\* The characters of the model that are not ASCII.
NonAscii == {"U+0130", "U+0307"}
IsAscii(s) == \A i \in 1..Len(s) : s[i] \notin NonAscii

BothMarkers == LowerCaseMarker \o SpellCheckerMarker

\* C19 (run is cumulative on the content): a run of [LowerCase, SpellChecker]
\* has left the pipeline as it was handed over, and the content it started
\* from in lower case followed by the two markers, which is, for ASCII
\* content, longer than before by the length of the markers; after n runs on
\* one EditorContent the content is the first content in lower case, then
\* n - 1 times the two markers in lower case, then the two markers.
RunCumulativeOnContent ==
    /\ (lastRun.via \in {"dyn", "static"} /\ lastRun.steps = MainSteps) =>
          /\ ed = ToLowercase(lastRun.before) \o BothMarkers
          /\ SubSeq(ed, Len(ed) - Len(BothMarkers) + 1, Len(ed)) = BothMarkers
          /\ IsAscii(lastRun.before) => Len(ed) = Len(lastRun.before) + Len(BothMarkers)
          /\ lastRun.via = "dyn" =>
                processings = RegistryOf(MainSteps) /\ registered = MainSteps
          /\ lastRun.via = "static" => chain = NestOf(MainSteps) /\ tools = chain
    /\ nruns >= 1 =>
          ed = ToLowercase(fresh) \o Repeated(ToLowercase(BothMarkers), nruns - 1)
                 \o BothMarkers

RunCumulativeOnContentWitness ==
    /\ nruns = MaxRepeats
    /\ nruns >= 2
    /\ lastRun.via = "static"
    /\ lastRun.steps = MainSteps
    /\ fresh = HelloWorld
    /\ lastRun.before = ToLowercase(HelloWorld) \o Repeated(ToLowercase(BothMarkers), nruns - 2)
                           \o BothMarkers
    /\ Contains(ed, ToLowercase(BothMarkers))

====
